---- MODULE Spec2Model ----
(***************************************************************************)
(* Chapter version store and publication workflow.                         *)
(*                                                                         *)
(* The store is the ChromaDB collection "book_chapters"                    *)
(* (database/chromadb_manager.py).  It is written by the HTTP handlers of  *)
(* API/api.py and by the command-line pipeline of src/main.py, which open  *)
(* the same persistent collection.                                         *)
(*                                                                         *)
(* A text is a sequence of one-character strings, so that str.lower(),     *)
(* str.split() and emptiness are computed and not assumed.                 *)
(***************************************************************************)
EXTENDS Integers, Sequences, FiniteSets, TLC

VARIABLES
    store,      \* the collection: records in insertion order
    svc,        \* api.py module globals: which service handles are set
    resp,       \* the last HTTP response of the API (and the request it answers)
    pc,         \* main.py: position of the pipeline run
    loc,        \* main.py: locals of the pipeline run
    wr,         \* concurrent writers inside add_chapter_version
    call,       \* the last add_chapter_version call made directly, and its outcome
    sc          \* calculate_reward: its arguments and the value it returned

vars == <<store, svc, resp, pc, loc, wr, call, sc>>

----------------------------------------------------------------------------
(* Bounds of the model.                                                    *)

\* Most records the collection holds in a checked run.
MaxStore == 3

\* Concurrent writers of the concurrency specification.
NumWriters == 2

----------------------------------------------------------------------------
(* Texts.                                                                  *)

Upper == <<"A", "B", "C", "D", "E", "F", "G", "H", "I", "J", "K", "L", "M",
           "N", "O", "P", "Q", "R", "S", "T", "U", "V", "W", "X", "Y", "Z">>

LowerCase == <<"a", "b", "c", "d", "e", "f", "g", "h", "i", "j", "k", "l", "m",
               "n", "o", "p", "q", "r", "s", "t", "u", "v", "w", "x", "y", "z">>

\* str.lower() on one character.
LowerOf == [i \in 1..Len(Upper) |-> LowerCase[i]]

UpperIndex == [c \in {Upper[i] : i \in 1..Len(Upper)} |->
                  CHOOSE i \in 1..Len(Upper) : Upper[i] = c]

LowerChar(c) == IF c \in DOMAIN UpperIndex THEN LowerOf[UpperIndex[c]] ELSE c

\* str.lower()
Lower(t) == [i \in 1..Len(t) |-> LowerChar(t[i])]

\* The literal "approve" the decision is compared with.
APPROVE == <<"a", "p", "p", "r", "o", "v", "e">>

\* Python truthiness of a str-or-None value (None is modelled as NoText).
NoText == <<"<None>">>

Truthy(t) == t # NoText /\ t # <<>>

\* What the human may type or say at the decision step.
HumanInputs ==
    { APPROVE,
      <<"A", "p", "p", "r", "o", "v", "e">>,
      <<>>,
      <<"F", "i", "x">> }

\* What the human may type or say at the decision step of the pipeline;
\* the text that is not an approval holds "approve" without being equal
\* to it.
PipelineInputs ==
    { APPROVE,
      <<"A", "p", "p", "r", "o", "v", "e">>,
      <<>>,
      <<"A", "p", "p", "r", "o", "v", "e", "d">> }

\* The text the model generates when the call succeeds.
Rewrites == { <<"d", "1">> }

\* self.model.generate_content(prompt) raising, as a response of the model.
LlmRaises == <<"<raise>">>

\* What the generative model may answer to the rewrite prompt.
LlmResponses == Rewrites \cup { LlmRaises }

\* f"Error: Could not generate content. {e}"
GenerationError ==
    <<"E", "r", "r", "o", "r", ":", " ", "C", "o", "u", "l", "d", " ",
      "n", "o", "t", " ", "g", "e", "n", "e", "r", "a", "t", "e", " ",
      "c", "o", "n", "t", "e", "n", "t", ".">>

\* LLMService.generate_content: the exception of the model call is caught
\* and a text describing it is returned in place of the generated text.
generate_content(response) ==
    IF response = LlmRaises THEN GenerationError ELSE response

\* AIWriter.rewrite_chapter: the prompt is sent through the LLMService the
\* writer was constructed with.
rewrite_chapter(response) == generate_content(response)

\* The version types the callers pass.
ORIGINAL == "original"
AI_DRAFT == "ai_draft_1"
FINAL_DRAFT == "final_draft"
SUMMARY == "summary"

\* The chapter id main.py uses.
PIPELINE_CHAPTER == "chapter_1"

\* The locators the API is asked to start, with the chapter id derived from
\* the scraped file name and the text scraped from the page. Scraping is an
\* external collaborator: start_workflow is modelled against the interface
\* it is written for (the path of the scraped text file, or None).
Urls == { "u2" }

ChapterOf(url) == "chapter_2"

ScrapedText(url) == <<"T", "w", "o">>

PIPELINE_TEXT == <<"O", "n", "e", " ", " ", "d", "a", "y">>

\* Chapter ids a client may name in a request.
RequestChapters == { PIPELINE_CHAPTER, "chapter_2", "chapter_9" }

----------------------------------------------------------------------------
(* The collection.                                                         *)

\* Whether a call of collection.add raises (embedding or storage failure).
Raises == BOOLEAN

\* The number at the end of a stored version id.
Sequence(rec) == rec.id[3]

Ids(coll) == { coll[i].id : i \in 1..Len(coll) }

\* collection.add of one record; `raises` is the outcome of the external
\* call. An id the collection already holds is not added a second time.
CollectionAdd_Upsert(coll, rec, raises) ==
    IF raises THEN coll
    ELSE IF \E i \in 1..Len(coll) : /\ coll[i].chapter_id = rec.chapter_id
                                    /\ coll[i].version_type = rec.version_type
         THEN LET i == CHOOSE j \in 1..Len(coll) :
                          /\ coll[j].chapter_id = rec.chapter_id
                          /\ coll[j].version_type = rec.version_type
              IN  [coll EXCEPT ![i] = rec]
         ELSE Append(coll, rec)

CollectionAdd(coll, rec, raises) ==
    IF raises \/ rec.id \in Ids(coll) THEN coll ELSE Append(coll, rec)

\* f"{chapter_id}-{version_type}-{current_count + 1}": the three parts are
\* kept apart (the version types hold no "-" and the last part is a number,
\* so the formatted string determines the triple).
VersionEntryId_NoIncrement(chapter_id, version_type, current_count) ==
    <<chapter_id, version_type, current_count>>

VersionEntryId(chapter_id, version_type, current_count) ==
    <<chapter_id, version_type, current_count + 1>>

\* The record add_chapter_version hands to collection.add, given the count
\* it read.
VersionEntry(chapter_id, chapter_text, version_type, current_count) ==
    [ id           |-> VersionEntryId(chapter_id, version_type, current_count),
      chapter_id   |-> chapter_id,
      version_type |-> version_type,
      document     |-> chapter_text ]

\* len(collection.get()['ids'])
CurrentCount(coll) == Len(coll)

\* add_chapter_version run without interruption: the exception of
\* collection.add is caught and printed, the call returns normally.
add_chapter_version(coll, chapter_id, chapter_text, version_type, raises) ==
    CollectionAdd(coll,
                  VersionEntry(chapter_id, chapter_text, version_type,
                               CurrentCount(coll)),
                  raises)

\* collection.get(where={"chapter_id": chapter_id}): the chapter's records
\* in insertion order.
get_chapter_versions(coll, chapter_id) ==
    SelectSeq(coll, LAMBDA r : r.chapter_id = chapter_id)

----------------------------------------------------------------------------
(* API/api.py                                                              *)

NoResp == [ op |-> "none", code |-> 0, chapter_id |-> "", human_input |-> NoText,
            status |-> "", final_text |-> NoText, results |-> <<>>,
            calls |-> {} ]

Response(op, code, chapter_id, human_input, status, final_text) ==
    [ op |-> op, code |-> code, chapter_id |-> chapter_id,
      human_input |-> human_input, status |-> status, final_text |-> final_text,
      results |-> <<>>, calls |-> {} ]

\* A response together with the calls the handler made on its way to it:
\* "scrape" (scrape_chapter), "generate" (the writer's and the reviewer's
\* LLM calls) and "add" (add_chapter_version).
WithCalls(response, calls) == [ response EXCEPT !.calls = calls ]

\* The response of a handler that returns a list.
ListResponse(op, code, chapter_id, results) ==
    [ NoResp EXCEPT !.op = op, !.code = code, !.chapter_id = chapter_id,
                    !.results = results ]

SvcNone == [ llm_service |-> FALSE, writer_agent |-> FALSE, reviewer_agent |-> FALSE,
             chroma_client |-> FALSE, chapters_collection |-> FALSE, started |-> FALSE ]

\* startup_event: the globals are assigned in order; an exception at step
\* `failAt` (1 LLMService, 2 AIWriter, 3 AIReviewer, 4 initialize_chromadb,
\* 5 create_or_get_collection) leaves the later ones None; 6 is success.
startup_event ==
    /\ ~svc.started
    /\ \E failAt \in {1, 4, 5, 6} :
         svc' = [ llm_service         |-> failAt > 1,
                  writer_agent        |-> failAt > 2,
                  reviewer_agent      |-> failAt > 3,
                  chroma_client       |-> failAt > 4,
                  chapters_collection |-> failAt > 5,
                  started             |-> TRUE ]
    /\ resp' = NoResp
    /\ UNCHANGED <<store, pc, loc, wr, call, sc>>

\* The last document of the given type among a chapter's versions, as the
\* loop of human_review leaves it (None when there is none).
LastOfType(versions, version_type) ==
    LET hits == SelectSeq(versions, LAMBDA r : r.version_type = version_type)
    IN  IF hits = <<>> THEN NoText ELSE hits[Len(hits)].document

\* The text human_review stores as final_draft, and its status message.
api_approved(human_input) == Lower(human_input) = APPROVE

api_final_text_CaseSensitive(human_input, latest_ai_draft) ==
    IF human_input = APPROVE THEN latest_ai_draft ELSE human_input

api_final_text(human_input, latest_ai_draft) ==
    IF api_approved(human_input) THEN latest_ai_draft ELSE human_input

api_status_message(human_input) ==
    IF api_approved(human_input) THEN "approved_stored_as_final"
                                 ELSE "edits_stored_as_final"

\* if not latest_ai_draft or not original_text: raise HTTPException(404)
api_not_found_DraftOnly(latest_ai_draft, original_text) ==
    ~Truthy(latest_ai_draft)

api_not_found(latest_ai_draft, original_text) ==
    ~Truthy(latest_ai_draft) \/ ~Truthy(original_text)

\* if not writer_agent or not reviewer_agent or not chapters_collection
start_unavailable_AgentsOnly ==
    ~svc.writer_agent \/ ~svc.reviewer_agent

start_unavailable ==
    ~svc.writer_agent \/ ~svc.reviewer_agent \/ ~svc.chapters_collection

\* if not chapters_collection
collection_unavailable == ~svc.chapters_collection

\* POST /workflow/start
start_workflow ==
    /\ svc.started
    /\ \/ /\ start_unavailable
          /\ resp' = Response("start_workflow", 503, "", NoText, "", NoText)
          /\ UNCHANGED store
       \/ /\ ~start_unavailable
          /\ \E failure \in {"scrape_failed", "file_not_found"} :
               resp' = WithCalls(Response("start_workflow", 500, "", NoText,
                                          failure, NoText),
                                 {"scrape"})
          /\ UNCHANGED store
       \/ /\ ~start_unavailable
          /\ Len(store) + 2 <= MaxStore
          /\ \E url \in Urls, response \in LlmResponses,
                raises1 \in Raises, raises2 \in Raises :
               LET chapter_id == ChapterOf(url)
                   ai_rewrite == rewrite_chapter(response)
                   s1 == add_chapter_version(store, chapter_id, ScrapedText(url),
                                             ORIGINAL, raises1)
                   s2 == add_chapter_version(s1, chapter_id, ai_rewrite,
                                             AI_DRAFT, raises2)
               IN  /\ store' = s2
                   /\ resp' = WithCalls(Response("start_workflow", 200, chapter_id,
                                                 NoText, "workflow_initiated",
                                                 NoText),
                                        {"scrape", "generate", "add"})
    /\ UNCHANGED <<svc, pc, loc, wr, call, sc>>

\* POST /workflow/human_review
human_review ==
    /\ svc.started
    /\ \/ /\ collection_unavailable
          /\ resp' = Response("human_review", 503, "", NoText, "", NoText)
          /\ UNCHANGED store
       \/ /\ ~collection_unavailable
          /\ \E chapter_id \in RequestChapters :
             LET chapter_versions == get_chapter_versions(store, chapter_id)
                 latest_ai_draft  == LastOfType(chapter_versions, AI_DRAFT)
                 original_text    == LastOfType(chapter_versions, ORIGINAL)
             IN
             \/ /\ api_not_found(latest_ai_draft, original_text)
                /\ resp' = Response("human_review", 404, chapter_id, NoText, "", NoText)
                /\ UNCHANGED store
             \/ /\ ~api_not_found(latest_ai_draft, original_text)
                /\ Len(store) < MaxStore
                /\ \E human_input \in HumanInputs, raises \in Raises :
                     LET final_text     == api_final_text(human_input, latest_ai_draft)
                         status_message == api_status_message(human_input)
                     IN  /\ store' = add_chapter_version(store, chapter_id, final_text,
                                                         FINAL_DRAFT, raises)
                         /\ resp' = WithCalls(Response("human_review", 200,
                                                       chapter_id, human_input,
                                                       status_message, final_text),
                                              {"add"})
    /\ UNCHANGED <<svc, pc, loc, wr, call, sc>>

Min(a, b) == IF a < b THEN a ELSE b

\* doc[:200] + "..."
SnippetLen == 200

content_snippet(doc) == SubSeq(doc, 1, Min(Len(doc), SnippetLen)) \o <<".", ".", ".">>

\* One entry of formatted_versions.
FormattedVersion(r) ==
    [ id |-> r.id, version_type |-> r.version_type, chapter_id |-> r.chapter_id,
      content_snippet |-> content_snippet(r.document) ]

\* GET /workflow/chapter_versions/{chapter_id}
get_chapter_all_versions ==
    /\ svc.started
    /\ \/ /\ collection_unavailable
          /\ resp' = Response("chapter_versions", 503, "", NoText, "", NoText)
       \/ /\ ~collection_unavailable
          /\ \E chapter_id \in RequestChapters :
               LET versions == get_chapter_versions(store, chapter_id)
               IN  resp' = ListResponse("chapter_versions", 200, chapter_id,
                              [ i \in 1..Len(versions) |->
                                    FormattedVersion(versions[i]) ])
    /\ UNCHANGED <<store, svc, pc, loc, wr, call, sc>>

\* request.query and request.n_results.
Queries == { <<"d">> }

NResults == { 1, 2 }

Abs(x) == IF x < 0 THEN 0 - x ELSE x

\* The distance between the embeddings of two texts is computed by the
\* embedding model of the collection; here it is a fixed function of the
\* two texts under which different records can be equally distant.
Distance(query_text, document) == Abs(Len(query_text) - Len(document))

\* collection.query for one query text: the positions of the n_results
\* nearest records, nearest first.  The order among equally distant
\* records is Chroma's, so every such order is possible.
NearestOrders(coll, query_text, n_results) ==
    LET k    == Min(n_results, Len(coll))
        d(i) == Distance(query_text, coll[i].document)
    IN  { s \in [1..k -> 1..Len(coll)] :
            /\ \A a, b \in 1..k : a < b => s[a] # s[b] /\ d(s[a]) <= d(s[b])
            /\ \A j \in 1..Len(coll) :
                  (\A a \in 1..k : s[a] # j) => \A a \in 1..k : d(s[a]) <= d(j) }

\* Python values of which the handler uses the type: a list has no get().
PyList(items) == [ kind |-> "list", items |-> items ]

PyDict(chapter_id, version_type) ==
    [ kind |-> "dict", chapter_id |-> chapter_id, version_type |-> version_type ]

\* semantic_search_chapters returns the result of collection.query as it
\* is: under every key one list per query text, here one, which holds the
\* values of the records found.
semantic_search_chapters(coll, query_text, order) ==
    [ ids       |-> << PyList([ a \in 1..Len(order) |-> coll[order[a]].id ]) >>,
      distances |-> << PyList([ a \in 1..Len(order) |->
                                  Distance(query_text, coll[order[a]].document) ]) >>,
      metadatas |-> << PyList([ a \in 1..Len(order) |->
                                  PyDict(coll[order[a]].chapter_id,
                                         coll[order[a]].version_type) ]) >>,
      documents |-> << PyList([ a \in 1..Len(order) |-> coll[order[a]].document ]) >> ]

\* results['metadatas'][i].get(...) for i in range(len(results['ids'])):
\* AttributeError when the value indexed is not a dict.
format_raises(results) ==
    \E i \in 1..Len(results.ids) : results.metadatas[i].kind # "dict"

\* formatted_results, when building it does not raise.
formatted_results(results) ==
    [ i \in 1..Len(results.ids) |->
        [ id |-> results.ids[i], distance |-> results.distances[i],
          version_type |-> results.metadatas[i].version_type,
          chapter_id |-> results.metadatas[i].chapter_id,
          content_snippet |-> content_snippet(results.documents[i]) ] ]

\* POST /workflow/search_chapters
search_chapters_api ==
    /\ svc.started
    /\ \/ /\ collection_unavailable
          /\ resp' = Response("search_chapters", 503, "", NoText, "", NoText)
       \/ /\ ~collection_unavailable
          /\ resp' \in
               { LET results == semantic_search_chapters(store, query, order)
                 IN  IF format_raises(results)
                     THEN Response("search_chapters", 500, "", NoText,
                                   "internal_server_error", NoText)
                     ELSE ListResponse("search_chapters", 200, "",
                                       formatted_results(results)) :
                 <<query, order>> \in
                     UNION { { <<q, o>> : o \in NearestOrders(store, q, n) } :
                             <<q, n>> \in Queries \X NResults } }
    /\ UNCHANGED <<store, svc, pc, loc, wr, call, sc>>

----------------------------------------------------------------------------
(* src/main.py                                                             *)

IsSpace(c) == c \in {" ", "\n", "\t"}

\* str.split(): the maximal runs of non-space characters of t[i..], `cur`
\* being the run read so far.
RECURSIVE SplitFrom(_, _, _)
SplitFrom(t, i, cur) ==
    IF i > Len(t)
    THEN IF cur = <<>> THEN <<>> ELSE <<cur>>
    ELSE IF IsSpace(t[i])
         THEN (IF cur = <<>> THEN <<>> ELSE <<cur>>) \o SplitFrom(t, i + 1, <<>>)
         ELSE SplitFrom(t, i + 1, Append(cur, t[i]))

Split(t) == SplitFrom(t, 1, <<>>)

\* " ".join(words)
RECURSIVE Join(_)
Join(words) ==
    IF words = <<>> THEN <<>>
    ELSE IF Len(words) = 1 THEN words[1]
    ELSE words[1] \o <<" ">> \o Join(Tail(words))

\* words[:100]
SummaryWords == 100

get_chapter_summary(chapter_content) ==
    LET words == Split(chapter_content)
        n     == IF Len(words) < SummaryWords THEN Len(words) ELSE SummaryWords
    IN  Join(SubSeq(words, 1, n)) \o <<".", ".", ".">>

\* The text the pipeline stores as final_draft.
\* if human_input.lower() == "approve"
main_approved(human_input) == Lower(human_input) = APPROVE

main_final_text(human_input, ai_rewrite) ==
    IF main_approved(human_input) THEN ai_rewrite ELSE human_input

NoLocals == [ ai_rewrite |-> NoText, human_input |-> NoText ]

\* Step 1: a run of the pipeline begins and scrapes CHAPTER_URL. A failed
\* scrape or a missing file ends the run.
P_Scrape ==
    /\ pc \in {"idle", "done"}
    /\ \E scraped \in BOOLEAN :
         pc' = IF scraped THEN "scraped" ELSE "done"
    /\ loc' = NoLocals
    /\ UNCHANGED <<store, svc, resp, wr, call, sc>>

\* Step 2: the collection is opened (an exception of initialize_chromadb or
\* create_or_get_collection ends the run) and the original is added.
P_StoreOriginal ==
    /\ pc = "scraped"
    /\ \/ /\ pc' = "done"
          /\ UNCHANGED store
       \/ /\ Len(store) < MaxStore
          /\ \E raises \in Raises :
               store' = add_chapter_version(store, PIPELINE_CHAPTER, PIPELINE_TEXT,
                                            ORIGINAL, raises)
          /\ pc' = "stored"
    /\ UNCHANGED <<svc, resp, loc, wr, call, sc>>

\* Step 3, first half: LLMService() raises ValueError without an API key and
\* the run ends; otherwise the writer's rewrite is added as ai_draft_1.
P_Draft ==
    /\ pc = "stored"
    /\ \/ /\ pc' = "done"
          /\ UNCHANGED <<store, loc>>
       \/ /\ Len(store) < MaxStore
          /\ \E response \in LlmResponses, raises \in Raises :
               LET ai_rewrite == rewrite_chapter(response)
               IN  /\ store' = add_chapter_version(store, PIPELINE_CHAPTER,
                                                   ai_rewrite, AI_DRAFT, raises)
                   /\ loc' = [loc EXCEPT !.ai_rewrite = ai_rewrite]
          /\ pc' = "drafted"
    /\ UNCHANGED <<svc, resp, wr, call, sc>>

\* Step 3, second half: the reviewer's feedback is printed, not stored.
P_Review ==
    /\ pc = "drafted"
    /\ pc' = "reviewed"
    /\ UNCHANGED <<store, svc, resp, loc, wr, call, sc>>

\* Step 4: the human decision and the final draft.
P_Human ==
    /\ pc = "reviewed"
    /\ Len(store) < MaxStore
    /\ \E human_input \in PipelineInputs, raises \in Raises :
         LET final_text == main_final_text(human_input, loc.ai_rewrite)
         IN  /\ store' = add_chapter_version(store, PIPELINE_CHAPTER, final_text,
                                             FINAL_DRAFT, raises)
             /\ loc' = [loc EXCEPT !.human_input = human_input]
    /\ pc' = "decided"
    /\ UNCHANGED <<svc, resp, wr, call, sc>>

\* Step 5: the summary of the original text.
P_Summary ==
    /\ pc = "decided"
    /\ Len(store) < MaxStore
    /\ \E raises \in Raises :
         store' = add_chapter_version(store, PIPELINE_CHAPTER,
                                      get_chapter_summary(PIPELINE_TEXT),
                                      SUMMARY, raises)
    /\ pc' = "summarized"
    /\ UNCHANGED <<svc, resp, loc, wr, call, sc>>

----------------------------------------------------------------------------
(* scraping/rl_reward.py                                                   *)
(*                                                                         *)
(* The reward is a float; it is counted here in thousandths, in which all  *)
(* weights of the code and the cosine scores below are whole numbers.      *)

\* needle in hay
Contains(hay, needle) ==
    \E i \in 0..(Len(hay) - Len(needle)) :
        SubSeq(hay, i + 1, i + Len(needle)) = needle

REJECT == <<"r", "e", "j", "e", "c", "t">>
POOR == <<"p", "o", "o", "r">>
GOOD == <<"g", "o", "o", "d">>
MINOR == <<"m", "i", "n", "o", "r">>
NEEDS_WORK == <<"n", "e", "e", "d", "s", " ", "w", "o", "r", "k">>
MAJOR == <<"m", "a", "j", "o", "r">>

\* reward += 1.0, reward -= 1.0, reward += 0.5, reward -= 0.5
APPROVAL_REWARD == 1000
REJECTION_REWARD == 0 - 1000
MILD_POSITIVE_REWARD == 500
MILD_NEGATIVE_REWARD == 0 - 500

\* The if/elif chain on human_feedback.lower(), with every rule an `if`.
sentiment_reward_EveryRule(human_feedback) ==
    LET fb == Lower(human_feedback)
    IN    (IF Contains(fb, APPROVE) THEN APPROVAL_REWARD ELSE 0)
        + (IF Contains(fb, REJECT) \/ Contains(fb, POOR) THEN REJECTION_REWARD ELSE 0)
        + (IF Contains(fb, GOOD) \/ Contains(fb, MINOR) THEN MILD_POSITIVE_REWARD ELSE 0)
        + (IF Contains(fb, NEEDS_WORK) \/ Contains(fb, MAJOR)
           THEN MILD_NEGATIVE_REWARD ELSE 0)

\* 1. Human feedback reward: the if/elif chain on human_feedback.lower().
sentiment_reward(human_feedback) ==
    LET fb == Lower(human_feedback)
    IN  IF Contains(fb, APPROVE) THEN APPROVAL_REWARD
        ELSE IF Contains(fb, REJECT) \/ Contains(fb, POOR) THEN REJECTION_REWARD
        ELSE IF Contains(fb, GOOD) \/ Contains(fb, MINOR) THEN MILD_POSITIVE_REWARD
        ELSE IF Contains(fb, NEEDS_WORK) \/ Contains(fb, MAJOR)
             THEN MILD_NEGATIVE_REWARD
        ELSE 0

\* What the try block meets: the import fails, encode or pytorch_cos_sim
\* raises, or a cosine score is computed (in thousandths).
ImportFails == [ ok |-> FALSE, error |-> "ImportError", cosine |-> 0 ]
EncodeFails == [ ok |-> FALSE, error |-> "Exception", cosine |-> 0 ]
Cosine(c) == [ ok |-> TRUE, error |-> "", cosine |-> c ]

CosineScores == { 0 - 500, 0, 500, 1000 }

Similarities == { ImportFails, EncodeFails } \cup { Cosine(c) : c \in CosineScores }

\* cosine_score * 0.2
SIMILARITY_WEIGHT_TENTHS == 2

\* 2. Semantic similarity reward, with a failure counted as the lowest
\* cosine score.
similarity_reward_FailureCounts(similarity) ==
    IF similarity.ok THEN (similarity.cosine * SIMILARITY_WEIGHT_TENTHS) \div 10
    ELSE ((0 - 1000) * SIMILARITY_WEIGHT_TENTHS) \div 10

\* 2. Semantic similarity reward: reward += cosine_score * 0.2 is the last
\* statement of the try block, so both except clauses leave the reward as
\* it was.
similarity_reward(similarity) ==
    IF similarity.ok THEN (similarity.cosine * SIMILARITY_WEIGHT_TENTHS) \div 10
    ELSE 0

\* reward -= 0.1
LENGTH_PENALTY == 100

\* len(rewritten_text) < len(original_text) * 0.7.  The double nearest to
\* 0.7 lies below 0.7 and a product that is a whole number is rounded to
\* it or below it, so for lengths the comparison decides as 10 r < 7 o.
significantly_shorter(original_text, rewritten_text) ==
    10 * Len(rewritten_text) < 7 * Len(original_text)

\* 3. The penalty with the approval exemption left out.
length_penalty_AnyFeedback(original_text, rewritten_text, human_feedback) ==
    IF significantly_shorter(original_text, rewritten_text)
    THEN LENGTH_PENALTY ELSE 0

\* 3. if len(rewritten_text) < len(original_text) * 0.7
\*       and "approve" not in human_feedback.lower(): reward -= 0.1
length_penalty(original_text, rewritten_text, human_feedback) ==
    IF /\ significantly_shorter(original_text, rewritten_text)
       /\ ~Contains(Lower(human_feedback), APPROVE)
    THEN LENGTH_PENALTY ELSE 0

calculate_reward(original_text, rewritten_text, human_feedback, similarity) ==
      sentiment_reward(human_feedback)
    + similarity_reward(similarity)
    - length_penalty(original_text, rewritten_text, human_feedback)

\* Arguments of the calls checked: feedback with no, one and several of the
\* words the rules look for; rewrites shorter than, at and above 0.7 of
\* the original's length.
Feedbacks ==
    { <<"a", "p", "p", "r", "o", "v", "e">>,
      <<"A", "p", "p", "r", "o", "v", "e", "d">>,
      <<"d", "i", "s", "a", "p", "p", "r", "o", "v", "e">>,
      <<"r", "e", "j", "e", "c", "t">>,
      <<"p", "o", "o", "r">>,
      <<"g", "o", "o", "d">>,
      <<"m", "i", "n", "o", "r", " ", "e", "d", "i", "t", "s">>,
      <<"n", "e", "e", "d", "s", " ", "w", "o", "r", "k">>,
      <<"m", "a", "j", "o", "r">>,
      <<"a", "p", "p", "r", "o", "v", "e", ",", " ", "p", "o", "o", "r">>,
      <<"g", "o", "o", "d", ",", " ", "p", "o", "o", "r">>,
      <<"m", "i", "n", "o", "r", ",", " ", "m", "a", "j", "o", "r">>,
      <<"r", "e", "j", "e", "c", "t", ",", " ", "m", "a", "j", "o", "r">>,
      <<>> }

ScoredOriginals == { <<"a", "b", "c", "d", "e", "f", "g", "h", "i", "j">>, <<>> }

ScoredRewrites == { <<"a", "b", "c", "d", "e", "f">>, <<"a", "b", "c", "d", "e", "f", "g">>, <<"a", "b", "c", "d", "e", "f", "g", "h", "x", "y">> }

\* calculate_reward has not been called yet.
NoScore ==
    [ original_text |-> NoText, rewritten_text |-> NoText,
      human_feedback |-> NoText, similarity |-> Cosine(0), reward |-> 0,
      returned |-> FALSE ]

\* One call of calculate_reward, which returns.
Call_calculate_reward ==
    /\ \E original_text \in ScoredOriginals, rewritten_text \in ScoredRewrites,
          human_feedback \in Feedbacks, similarity \in Similarities :
         sc' = [ original_text |-> original_text, rewritten_text |-> rewritten_text,
                 human_feedback |-> human_feedback, similarity |-> similarity,
                 reward |-> calculate_reward(original_text, rewritten_text,
                                             human_feedback, similarity),
                 returned |-> TRUE ]
    /\ UNCHANGED <<store, svc, resp, pc, loc, wr, call>>

\* reward = calculate_reward(original_chapter_text, ai_rewrite, human_input)
\* in the pipeline run, given what the similarity computation meets.
main_reward(similarity) ==
    calculate_reward(PIPELINE_TEXT, loc.ai_rewrite, loc.human_input, similarity)

\* Step 6 of the pipeline: the reward is computed and printed; the run ends.
P_Reward ==
    /\ pc = "summarized"
    /\ \E similarity \in Similarities : main_reward(similarity) \in Int
    /\ pc' = "done"
    /\ loc' = NoLocals
    /\ UNCHANGED <<store, svc, resp, wr, call, sc>>

----------------------------------------------------------------------------
(* Concurrent callers of add_chapter_version: processes that opened the    *)
(* same persistent collection. A call reads the count and then adds.       *)

Writers == 1..NumWriters

WriterChapters == { PIPELINE_CHAPTER, "chapter_2" }

WriterTypes == { ORIGINAL, AI_DRAFT }

IdleWriter == [ pc |-> "idle", chapter_id |-> "", version_type |-> "",
                chapter_text |-> NoText, current_count |-> 0, calls |-> 0 ]

RECURSIVE SumCalls(_, _)
SumCalls(w, n) == IF n = 0 THEN 0 ELSE w[n].calls + SumCalls(w, n - 1)

\* Calls of add_chapter_version begun so far.
TotalCalls == SumCalls(wr, NumWriters)

\* current_count = len(collection.get()['ids'])
W_ReadCount(w) ==
    /\ wr[w].pc = "idle"
    /\ TotalCalls < MaxStore
    /\ \E chapter_id \in WriterChapters, version_type \in WriterTypes,
          chapter_text \in Rewrites :
         wr' = [wr EXCEPT ![w] =
                   [ pc |-> "adding", chapter_id |-> chapter_id,
                     version_type |-> version_type, chapter_text |-> chapter_text,
                     current_count |-> CurrentCount(store),
                     calls |-> @.calls + 1 ]]
    /\ UNCHANGED <<store, svc, resp, pc, loc, call, sc>>

\* collection.add(...) with the id built from the count read before. The
\* add itself does not raise here, so that every append that goes missing
\* is due to the interleaving.
W_Add(w) ==
    /\ wr[w].pc = "adding"
    /\ store' = CollectionAdd(store,
                              VersionEntry(wr[w].chapter_id, wr[w].chapter_text,
                                           wr[w].version_type, wr[w].current_count),
                              FALSE)
    /\ wr' = [wr EXCEPT ![w].pc = "idle"]
    /\ UNCHANGED <<svc, resp, pc, loc, call, sc>>

----------------------------------------------------------------------------

\* No direct call has been made yet.
NoCall ==
    [ chapter_id |-> "", version_type |-> "", chapter_text |-> NoText,
      outcome |-> "none" ]

Init ==
    /\ store = <<>>
    /\ svc = SvcNone
    /\ resp = NoResp
    /\ pc = "idle"
    /\ loc = NoLocals
    /\ wr = [w \in Writers |-> IdleWriter]
    /\ call = NoCall
    /\ sc = NoScore

Next ==
    \/ startup_event
    \/ start_workflow
    \/ human_review
    \/ P_Scrape
    \/ P_StoreOriginal
    \/ P_Draft
    \/ P_Review
    \/ P_Human
    \/ P_Summary
    \/ P_Reward

Spec == Init /\ [][Next]_vars

\* The HTTP service alone.
NextApi ==
    \/ startup_event
    \/ start_workflow
    \/ human_review
    \/ get_chapter_all_versions
    \/ search_chapters_api

SpecApi == Init /\ [][NextApi]_vars

\* The operations that write, together with the two handlers that only read.
NextAll ==
    \/ Next
    \/ get_chapter_all_versions
    \/ search_chapters_api

SpecAll == Init /\ [][NextAll]_vars

\* Any sequence of add_chapter_version calls, one at a time, over several
\* chapters and all version types.
VersionTypes == { ORIGINAL, AI_DRAFT, FINAL_DRAFT, SUMMARY }

Call_add_chapter_version ==
    /\ Len(store) < MaxStore
    /\ \E chapter_id \in WriterChapters, version_type \in VersionTypes,
          chapter_text \in Rewrites, raises \in Raises :
         store' = add_chapter_version(store, chapter_id, chapter_text,
                                      version_type, raises)
    /\ UNCHANGED <<svc, resp, pc, loc, wr, call, sc>>

SpecCalls == Init /\ [][Call_add_chapter_version]_vars

\* What collection.add does with the one call it is given: Chroma computes
\* the embedding of the document inside add, before it writes the record,
\* so a failing embedding function makes add raise with nothing written.
AddOutcomes == { "added", "embedding_failed", "write_failed" }

\* One add_chapter_version call of which the arguments and what happened
\* inside collection.add are recorded.
Call_add_with_outcome ==
    /\ Len(store) < MaxStore
    /\ \E chapter_id \in WriterChapters, version_type \in VersionTypes,
          chapter_text \in Rewrites, outcome \in AddOutcomes :
         /\ store' = add_chapter_version(store, chapter_id, chapter_text,
                                         version_type, outcome # "added")
         /\ call' = [ chapter_id |-> chapter_id, version_type |-> version_type,
                      chapter_text |-> chapter_text, outcome |-> outcome ]
    /\ UNCHANGED <<svc, resp, pc, loc, wr, sc>>

SpecIndex == Init /\ [][Call_add_with_outcome]_vars

SpecScore == Init /\ [][Call_calculate_reward]_vars

NextConc == \E w \in Writers : W_ReadCount(w) \/ W_Add(w)

SpecConc == Init /\ [][NextConc]_vars

----------------------------------------------------------------------------
(* Properties.                                                             *)

ChapterIds == { store[i].chapter_id : i \in 1..Len(store) }

\* The sequence numbers of a chapter's versions in ListVersions order.
SequencesOf(coll, chapter_id) ==
    LET versions == get_chapter_versions(coll, chapter_id)
    IN  [i \in 1..Len(versions) |-> Sequence(versions[i])]

\* Record i of the collection has an earlier record of its chapter with the
\* given type.
HasEarlier(coll, i, version_type) ==
    \E j \in 1..(i - 1) :
        /\ coll[j].chapter_id = coll[i].chapter_id
        /\ coll[j].version_type = version_type

\* GetLatest(chapter_id, version_type).content, NoText when there is none.
LatestContent(coll, chapter_id, version_type) ==
    LastOfType(get_chapter_versions(coll, chapter_id), version_type)

C2_NoLostAppend ==
    (\A w \in Writers : wr[w].pc = "idle") =>
        /\ Len(store) = TotalCalls
        /\ \A i, j \in 1..Len(store) :
              (i # j /\ store[i].chapter_id = store[j].chapter_id)
                  => Sequence(store[i]) # Sequence(store[j])

\* C3: under concurrent writers on several chapters no chapter's sequence
\* skips or repeats a value: each chapter's numbers, in ListVersions order,
\* go up by exactly one.
C3_NoSkipNoRepeat ==
    \A c \in ChapterIds :
        \A i \in DOMAIN SequencesOf(store, c) :
            i > 1 => SequencesOf(store, c)[i] = SequencesOf(store, c)[i - 1] + 1

\* C4: every chapter holds at most one original.
C4_AtMostOneOriginal ==
    \A c \in ChapterIds :
        Cardinality({ i \in 1..Len(store) :
                        store[i].chapter_id = c /\ store[i].version_type = ORIGINAL }) <= 1

\* C5: every chapter that holds an ai_draft holds an earlier original.
C5_DraftAfterOriginal ==
    \A i \in 1..Len(store) :
        store[i].version_type = AI_DRAFT => HasEarlier(store, i, ORIGINAL)

\* C6: every chapter that holds a final_draft holds an earlier ai_draft.
C6_FinalAfterDraft ==
    \A i \in 1..Len(store) :
        store[i].version_type = FINAL_DRAFT => HasEarlier(store, i, AI_DRAFT)

\* C7: every chapter that holds a summary holds an earlier final_draft.
C7_SummaryAfterFinal ==
    \A i \in 1..Len(store) :
        store[i].version_type = SUMMARY => HasEarlier(store, i, FINAL_DRAFT)

\* A step of human_review that answered 200.
HumanReviewStep ==
    /\ pc' = pc /\ svc' = svc /\ wr' = wr
    /\ <<store, resp>>' # <<store, resp>>
    /\ resp'.op = "human_review"
    /\ resp'.code = 200

\* The decision step of the pipeline.
PipelineDecisionStep == pc = "reviewed" /\ pc' = "decided"

\* `new` is `old` with one final_draft of the chapter appended, holding text.
AppendedFinal(old, new, chapter_id, text) ==
    /\ Len(new) = Len(old) + 1
    /\ SubSeq(new, 1, Len(old)) = old
    /\ new[Len(new)].chapter_id = chapter_id
    /\ new[Len(new)].version_type = FINAL_DRAFT
    /\ new[Len(new)].document = text

\* C8: when a chapter holds an original and ai_drafts, the decision
\* "approve" makes the chapter's latest final_draft equal in content to its
\* latest ai_draft.
C8_ApprovePromotesLatestDraft ==
    [][ /\ (HumanReviewStep /\ resp'.human_input = APPROVE)
            => LatestContent(store', resp'.chapter_id, FINAL_DRAFT)
                 = LatestContent(store', resp'.chapter_id, AI_DRAFT)
        /\ ( /\ PipelineDecisionStep
             /\ loc'.human_input = APPROVE
             /\ Truthy(LatestContent(store, PIPELINE_CHAPTER, ORIGINAL))
             /\ Truthy(LatestContent(store, PIPELINE_CHAPTER, AI_DRAFT)) )
            => LatestContent(store', PIPELINE_CHAPTER, FINAL_DRAFT)
                 = LatestContent(store', PIPELINE_CHAPTER, AI_DRAFT)
      ]_vars

C10_EmptyContentRejected ==
    /\ \A i \in 1..Len(store) :
          store[i].document # <<>> /\ store[i].chapter_id # ""
    /\ ~(resp.op = "human_review" /\ resp.code = 200 /\ resp.human_input = <<>>)
    /\ ~(pc = "decided" /\ loc.human_input = <<>>
         /\ LatestContent(store, PIPELINE_CHAPTER, FINAL_DRAFT) = <<>>)

\* C11: when the generator fails during the rewrite, no ai_draft is appended:
\* the text describing the failure is never stored as an ai_draft and is
\* never promoted to a final_draft.
C11_GeneratorFailureNotStored ==
    \A i \in 1..Len(store) :
        store[i].version_type \in { AI_DRAFT, FINAL_DRAFT }
            => store[i].document # GenerationError

\* C12: when computing or storing the embedding of a version fails, the
\* append of that version is still committed: the version is in the store
\* and get_chapter_versions returns it.
C12_AppendSurvivesIndexFailure ==
    call.outcome = "embedding_failed"
        => LET versions == get_chapter_versions(store, call.chapter_id)
           IN  \E i \in 1..Len(versions) :
                  /\ versions[i].version_type = call.version_type
                  /\ versions[i].document = call.chapter_text

\* C13: versions are append-only: whatever operation runs (start, draft,
\* human decision, summary, list, search, score), every version in the
\* store before the step is in the store after it, at the same position
\* and with the same id, chapter id, version type and content.
C13_AppendOnly ==
    [][ /\ Len(store') >= Len(store)
        /\ \A i \in 1..Len(store) : store'[i] = store[i] ]_vars

\* The versions of a chapter have been listed while the store holds an
\* original, a draft and a final draft of it.
C13_Witness ==
    /\ resp.op = "chapter_versions" /\ resp.code = 200
    /\ Len(resp.results) >= 2
    /\ \E i, j, k \in 1..Len(store) :
          /\ i < j /\ j < k
          /\ store[i].version_type = ORIGINAL
          /\ store[j].version_type = AI_DRAFT
          /\ store[k].version_type = FINAL_DRAFT

\* C14: the draft step runs rewrite, append of the ai_draft, review, in
\* this order: when the review is invoked the original and the ai_draft
\* just written are stored, and nothing but the four version types is ever
\* appended (the review feedback is not).
C14_DraftPersistedBeforeReview ==
    /\ pc = "drafted" =>
          LET versions == get_chapter_versions(store, PIPELINE_CHAPTER)
          IN  \E i, j \in 1..Len(versions) :
                 /\ i < j
                 /\ versions[i].version_type = ORIGINAL
                 /\ versions[j].version_type = AI_DRAFT
                 /\ versions[j].document = loc.ai_rewrite
    /\ \A i \in 1..Len(store) : store[i].version_type \in VersionTypes

\* A version of the given type is stored for the chapter.
HasVersion(coll, chapter_id, version_type) ==
    \E i \in 1..Len(coll) : /\ coll[i].chapter_id = chapter_id
                            /\ coll[i].version_type = version_type

\* C15: a human decision for a chapter that has no stored original or no
\* stored ai_draft (an unknown chapter id included) is answered 404 by the
\* initialised service and leaves the store unchanged: no final_draft is
\* appended.
C15_DecisionWithoutVersionsNotFound ==
    [][ ( /\ pc' = pc /\ svc' = svc
          /\ resp'.op = "human_review" /\ resp'.code # 503
          /\ \/ ~HasVersion(store, resp'.chapter_id, ORIGINAL)
             \/ ~HasVersion(store, resp'.chapter_id, AI_DRAFT) )
        => (resp'.code = 404 /\ store' = store) ]_vars

\* A decision was refused for a chapter that has a draft but no original.
C15_Witness ==
    /\ resp.op = "human_review" /\ resp.code = 404
    /\ resp.chapter_id = "chapter_2"
    /\ HasVersion(store, "chapter_2", AI_DRAFT)
    /\ ~HasVersion(store, "chapter_2", ORIGINAL)

\* The rules of the sentiment term in the order of their priority:
\* approval, rejection, mild positive, mild negative.
SentimentRules ==
    << [ words |-> { APPROVE },           value |-> 1000 ],
       [ words |-> { REJECT, POOR },      value |-> 0 - 1000 ],
       [ words |-> { GOOD, MINOR },       value |-> 500 ],
       [ words |-> { NEEDS_WORK, MAJOR }, value |-> 0 - 500 ] >>

\* The rules of which a word occurs in the feedback, case ignored.
MatchingRules(human_feedback) ==
    { k \in 1..Len(SentimentRules) :
        \E w \in SentimentRules[k].words : Contains(Lower(human_feedback), w) }

\* What the sentiment term of a returned reward was: the reward less the
\* other two terms.
SentimentTermOf(score) ==
    score.reward - similarity_reward(score.similarity)
        + length_penalty(score.original_text, score.rewritten_text,
                         score.human_feedback)

\* C16: the sentiment term is that of the first matching rule in the order
\* approval (+1.0), rejection (-1.0), mild positive (+0.5), mild negative
\* (-0.5), and 0 when no rule matches: one rule contributes, also when the
\* feedback matches several.
C16_FirstMatchingRule ==
    sc.returned =>
        LET matching == MatchingRules(sc.human_feedback)
        IN  IF matching = {}
            THEN SentimentTermOf(sc) = 0
            ELSE LET first == CHOOSE k \in matching : \A j \in matching : k <= j
                 IN  SentimentTermOf(sc) = SentimentRules[first].value

\* A reward was returned for feedback that matches a rejection rule and a
\* mild positive rule at once.
C16_Witness ==
    /\ sc.returned
    /\ {2, 3} \subseteq MatchingRules(sc.human_feedback)
    /\ SentimentTermOf(sc) = 0 - 1000

\* The sentiment term and the length penalty as the specification gives
\* them, in thousandths.
ExpectedSentiment(human_feedback) ==
    LET matching == MatchingRules(human_feedback)
    IN  IF matching = {} THEN 0
        ELSE SentimentRules[CHOOSE k \in matching : \A j \in matching : k <= j].value

ExpectedPenalty(original_text, rewritten_text, human_feedback) ==
    IF /\ 10 * Len(rewritten_text) < 7 * Len(original_text)
       /\ 1 \notin MatchingRules(human_feedback)
    THEN 100 ELSE 0

\* C17: for a rewrite shorter than 0.7 of the original and one similarity,
\* the reward for "needs work" is below the reward for "approve"; and the
\* 0.1 penalty is subtracted exactly when the rewrite is shorter than 0.7
\* of the original and the feedback is not an approval.
C17_ShortRewritePenalty ==
    sc.returned =>
        /\ 10 * Len(sc.rewritten_text) < 7 * Len(sc.original_text)
              => calculate_reward(sc.original_text, sc.rewritten_text,
                                  NEEDS_WORK, sc.similarity)
                   < calculate_reward(sc.original_text, sc.rewritten_text,
                                      APPROVE, sc.similarity)
        /\ sc.reward = ExpectedSentiment(sc.human_feedback)
                         + similarity_reward(sc.similarity)
                         - ExpectedPenalty(sc.original_text, sc.rewritten_text,
                                           sc.human_feedback)

\* A short rewrite was scored with an approval, and no penalty was taken.
C17_Witness ==
    /\ sc.returned
    /\ 10 * Len(sc.rewritten_text) < 7 * Len(sc.original_text)
    /\ sc.human_feedback = APPROVE
    /\ sc.similarity = Cosine(500)
    /\ sc.reward = 1100

\* C18: when the similarity cannot be computed (the library is missing or
\* the embedding call raises), the call still returns and the reward is
\* the sentiment term less the length penalty: similarity contributes 0.
C18_SimilarityFailureContributesZero ==
    (sc.returned /\ ~sc.similarity.ok) =>
        sc.reward = ExpectedSentiment(sc.human_feedback)
                      - ExpectedPenalty(sc.original_text, sc.rewritten_text,
                                        sc.human_feedback)

\* A reward was returned although the import of the library failed.
C18_Witness ==
    /\ sc.returned
    /\ sc.similarity = ImportFails
    /\ sc.human_feedback = NEEDS_WORK
    /\ sc.reward = 0 - 600

\* C19: a search answered by the initialised service returns at most
\* n_results results, in order of non-decreasing distance.
C19_SearchOrderedByDistance ==
    (resp.op = "search_chapters" /\ resp.code # 503) =>
        /\ resp.code = 200
        /\ \E n \in NResults : Len(resp.results) <= n
        /\ \A a, b \in 1..Len(resp.results) :
              a < b => resp.results[a].distance <= resp.results[b].distance

\* C20: a step reports a version as stored only if it was stored: after
\* human_review has answered "Stored as final" the chapter has a
\* final_draft with the reported text, and after the pipeline has printed
\* that the final version is stored chapter_1 has its final_draft.
C20_ReportedStoredIsStored ==
    /\ (resp.op = "human_review" /\ resp.code = 200) =>
          \E i \in 1..Len(store) :
              /\ store[i].chapter_id = resp.chapter_id
              /\ store[i].version_type = FINAL_DRAFT
              /\ store[i].document = resp.final_text
    /\ pc \in { "decided", "summarized" } =>
          \E i \in 1..Len(store) :
              /\ store[i].chapter_id = PIPELINE_CHAPTER
              /\ store[i].version_type = FINAL_DRAFT
              /\ store[i].document = main_final_text(loc.human_input, loc.ai_rewrite)

\* C21: the decision rule of the pipeline and the reward agree on what an
\* approval is: the reward the run is about to compute has the approval
\* term (+1.0) and no length penalty if and only if the run treated the
\* human input as an approval and took the AI draft as the final text.
C21_RewardAgreesWithDecision ==
    pc = "summarized" =>
        \A similarity \in Similarities :
            (main_reward(similarity) = 1000 + similarity_reward(similarity))
                <=> /\ main_approved(loc.human_input)
                    /\ main_final_text(loc.human_input, loc.ai_rewrite)
                          = loc.ai_rewrite

\* The services an endpoint needs, by the name of the svc field.
RequiredServices(op) ==
    IF op = "start_workflow"
    THEN { "writer_agent", "reviewer_agent", "chapters_collection" }
    ELSE { "chapters_collection" }

\* C22: after every outcome of the startup the collection handle is set
\* only if the writer and the reviewer are set; and an endpoint called
\* while a service it needs is not set answers 503, having made no scrape,
\* no generation call and no store write, and leaves the store as it was.
C22_UninitializedAnswers503 ==
    [][ /\ svc'.chapters_collection => (svc'.writer_agent /\ svc'.reviewer_agent)
        /\ ( /\ svc' = svc
             /\ resp'.op # "none"
             /\ \E f \in RequiredServices(resp'.op) : ~svc[f] )
           => /\ resp'.code = 503
              /\ resp'.calls = {}
              /\ store' = store ]_vars

\* The start endpoint answered 503 after a startup that set the agents but
\* failed to open the collection.
C22_Witness ==
    /\ svc.started /\ svc.writer_agent /\ svc.reviewer_agent
    /\ ~svc.chapters_collection
    /\ resp.op = "start_workflow" /\ resp.code = 503

====
